---- MODULE Spec2Model ----
(***************************************************************************)
(* Mancala: the board engine of src/src/game/mod.rs (Position, Game).      *)
(*                                                                         *)
(* A Position is a record [player, size, capture, bowls]; bowls and        *)
(* capture are functions indexed from 0, as the Vec and the array of the   *)
(* source are.  Stones is u8, Score is i8, Bowl is usize.                  *)
(***************************************************************************)
EXTENDS Integers, Sequences, FiniteSets, TLC

\* ------------------------------------------------------------------ bounds
\* GameBuilder::bowls(n) is called with n in 0..MaxBowls.
MaxBowls == 2
\* GameBuilder::stones(n) is called with n in 0..MaxStones.
MaxStones == 3
\* Game::play is called while the history holds fewer than MaxPlays entries.
MaxPlays == 5
\* Position::from is called with arrays holding at most MaxTotal stones.
MaxTotal == 5
\* Position::from is called with stores holding at most MaxStore stones each.
MaxStore == 1
\* The strategies are run on arrays holding at most SearchTotal stones.
SearchTotal == 4
\* alpha_beta is called directly on arrays holding at most CallTotal stones.
CallTotal == 1
\* A bout is started on the fresh games that hold at most BoutTotal stones,
BoutTotal == 8
\* and on a board of one bowl a side with HeavyStones stones a bowl.
HeavyStones == 102
\* The searches are limited to Depth::Limit(d) with d in 0..MaxDepth, or not
\* limited.
MaxDepth == 2
\* The Depths that are decremented and iterated are Limit(n) with n in
\* 0..MaxLimit or among the greatest usize, and Infinite.
MaxLimit == 3
\* Depth::decrement is called at most MaxSteps times in a row.
MaxSteps == 5
\* DepthIterator::next is called while fewer than MaxYield depths were yielded.
MaxYield == 6
\* A kept Strategy object is consulted on arrays holding at most AgainTotal
\* stones,
AgainTotal == 2
\* at most MaxCalls times.
MaxCalls == 3
\* alpha_beta is called with windows on arrays holding at most WindowTotal
\* stones.
WindowTotal == 4
\* A board of i8::MAX stones holds at most HeavyRest of them outside the
\* place where the others are.
HeavyRest == 2
\* Position::from is called with one bowl or one store holding u8::MAX - k
\* stones, k in 0..WideRest,
WideRest == 2
\* beside bowls that hold at most WideTotal stones.
WideTotal == 3

\* ------------------------------------------------------- integer widths
\* Stones = u8: the number of values of the type.
StonesModulus == 256
\* Score = i8: the number of non-negative values of the type.
ScoreLimit == 128

\* `x as Stones`: a truncating cast to u8.
AsStones(x) == x % StonesModulus

\* `x as Score` of a u8 x: the two's complement reading of the same byte.
AsScore(x) == IF x >= ScoreLimit THEN x - StonesModulus ELSE x

\* ---------------------------------------------------------------- state
VARIABLES
    current,          \* Game::current, or the Position the calls are made on
    history,          \* Game::history: a sequence of <<player, bowl>>
    before,           \* the receiver of the last call of play, as it was
    played,           \* the bowl given to the last call of play
    outcome,          \* what the last call came to
    overflow_checks,  \* the build: TRUE with overflow checks (debug), FALSE without
    found,            \* the last search made on current and what it returned
    bout,             \* Bout: the strategies and the progress of Bout::start
    initial,          \* the Position the game or the calls started from
    searcher,         \* a Strategy object that is kept between calls of play
    unit              \* the last call made on a Value, a Depth or a DepthIterator

vars == <<current, history, before, played, outcome, overflow_checks, found, bout,
          initial, searcher, unit>>

Players == {"Red", "Blue"}

\* Player::other
other(player) == IF player = "Red" THEN "Blue" ELSE "Red"

\* The indices of a board of `size` bowls a side.
Board(size) == 0 .. (2 * size - 1)

\* Position::new
PositionNew(bowls, stones) ==
    [player |-> "Red",
     size |-> bowls,
     capture |-> [i \in 0 .. 1 |-> 0],
     bowls |-> [i \in Board(bowls) |-> stones]]

\* impl From<(Player, Stones, Stones, [Stones; n])> for Position
PositionFrom(player, c0, c1, bowls, n) ==
    [player |-> player,
     size |-> n \div 2,
     capture |-> [i \in 0 .. 1 |-> IF i = 0 THEN c0 ELSE c1],
     bowls |-> bowls]

\* The sum of f over the slice [lo, hi), as iter().sum() computes it in
\* unbounded integers.
RECURSIVE SliceSum(_, _, _)
SliceSum(f, lo, hi) ==
    IF lo >= hi THEN 0 ELSE f[lo] + SliceSum(f, lo + 1, hi)

\* ------------------------------------------------------ Position::sow
tour(p) == 2 * p.size + 1

all_gain(p, bowl) == p.bowls[bowl] \div tour(p)

extra(p, bowl) == p.bowls[bowl] % tour(p)

final_index(p, bowl) == bowl + extra(p, bowl)

\* `extra - 1` on usize with extra = 0: the bound of the sowing range
\* underflows.  With overflow checks the subtraction panics; without them it
\* wraps to usize::MAX and the range 1..=usize::MAX is sown.
range_underflows(p, bowl) ==
    final_index(p, bowl) >= p.size /\ extra(p, bowl) = 0

\* The upper bound of the range 1..=n of the sowing loop.
sow_range(p, bowl) ==
    IF final_index(p, bowl) >= p.size
    THEN extra(p, bowl) - 1
    ELSE extra(p, bowl)

\* How many stones of the loop fall into bowl i.
drops(p, bowl, i) ==
    Cardinality({k \in 1 .. sow_range(p, bowl) : (bowl + k) % (2 * p.size) = i})

\* The bowls after the sown bowl was emptied and every bowl gained all_gain.
gained_bowls(p, bowl) ==
    [i \in Board(p.size) |->
        AsStones((IF i = bowl THEN 0 ELSE p.bowls[i]) + all_gain(p, bowl))]

\* The bowls after the sowing loop, in unbounded integers.
sown_exact(p, bowl) ==
    [i \in Board(p.size) |-> gained_bowls(p, bowl)[i] + drops(p, bowl, i)]

\* The bowls after the sowing loop (line 207).
sown_bowls(p, bowl) ==
    [i \in Board(p.size) |-> AsStones(sown_exact(p, bowl)[i])]

\* The condition of the capture (line 209).
captures(p, bowl) ==
    /\ final_index(p, bowl) < p.size
    /\ sown_bowls(p, bowl)[final_index(p, bowl)] = 1

\* The bowl opposite the landing bowl (line 210).
opposite_index(p, bowl) == 2 * p.size - 1 - final_index(p, bowl)

captured(p, bowl) ==
    IF captures(p, bowl) THEN sown_bowls(p, bowl)[opposite_index(p, bowl)] ELSE 0

\* The bowls after the capture (line 213).
captured_bowls(p, bowl) ==
    IF captures(p, bowl)
    THEN [sown_bowls(p, bowl) EXCEPT ![opposite_index(p, bowl)] = 0]
    ELSE sown_bowls(p, bowl)

\* Mutation: the store stone is credited only to a sow that ends in the store.
capture_gain_only_at_store(p, bowl) ==
    all_gain(p, bowl) + captured(p, bowl)
        + (IF final_index(p, bowl) = p.size THEN 1 ELSE 0)

capture_gain(p, bowl) ==
    all_gain(p, bowl) + captured(p, bowl)
        + (IF final_index(p, bowl) >= p.size THEN 1 ELSE 0)

\* capture[0] + capture_gain as Stones, in unbounded integers.
store_exact(p, bowl) == p.capture[0] + AsStones(capture_gain(p, bowl))

\* Mutation: the turn is kept whenever the sow reached the store.
change_player_before_store(p, bowl) == final_index(p, bowl) < p.size

change_player(p, bowl) == final_index(p, bowl) # p.size

\* Mutation: the Vec is rotated by one bowl, whatever mid is.
rotate_left_by_one(bowls, len, mid) ==
    [i \in 0 .. (len - 1) |-> bowls[(i + 1) % len]]

\* Vec::rotate_left(mid) on a function indexed from 0.
rotate_left(bowls, len, mid) ==
    [i \in 0 .. (len - 1) |-> bowls[(i + mid) % len]]

\* A u8 addition of sow leaves the type: `bowls[..] += 1` or
\* `self.capture[0] + capture_gain as Stones`.
sow_overflows(p, bowl) ==
    \/ \E i \in Board(p.size) : sown_exact(p, bowl)[i] >= StonesModulus
    \/ store_exact(p, bowl) >= StonesModulus

\* The Vec of sow as a value: element after element, as collect() and the
\* loops that follow it leave it.
RECURSIVE to_vec(_, _)
to_vec(bowls, len) ==
    IF len = 0 THEN bowls
    ELSE IF len = 1 THEN (0 :> bowls[0])
    ELSE to_vec(bowls, len - 1) @@ ((len - 1) :> bowls[len - 1])

\* The Position sow returns when it returns.
sow(p, bowl) ==
    LET capture == [i \in 0 .. 1 |->
                        IF i = 0 THEN AsStones(store_exact(p, bowl))
                        ELSE p.capture[1]]
    IN  IF change_player(p, bowl)
        THEN [player |-> other(p.player),
              size |-> p.size,
              capture |-> [i \in 0 .. 1 |-> capture[1 - i]],
              bowls |-> to_vec(rotate_left(captured_bowls(p, bowl), 2 * p.size,
                                           p.size), 2 * p.size)]
        ELSE [player |-> p.player,
              size |-> p.size,
              capture |-> capture,
              bowls |-> to_vec(captured_bowls(p, bowl), 2 * p.size)]

\* How a call of sow ends: "Return", "Panic" (an arithmetic check fails) or
\* "Hang" (the range 1..=usize::MAX is sown).
sow_end(p, bowl, checks) ==
    IF range_underflows(p, bowl)
    THEN (IF checks THEN "Panic" ELSE "Hang")
    ELSE IF checks /\ sow_overflows(p, bowl) THEN "Panic"
    ELSE "Return"

\* Position::play: [kind |-> "Some", pos |-> the new position],
\* [kind |-> "None"], or the call does not return (kind "Panic" or "Hang");
\* pos is the receiver when no position is produced.
play(p, bowl, checks) ==
    IF p.bowls[bowl] > 0
    THEN IF sow_end(p, bowl, checks) = "Return"
         THEN [kind |-> "Some", pos |-> sow(p, bowl)]
         ELSE [kind |-> sow_end(p, bowl, checks), pos |-> p]
    ELSE [kind |-> "None", pos |-> p]

\* Mutation: the bowls of the far side are listed as well.
options_of_the_board(p) ==
    SelectSeq([k \in 1 .. 2 * p.size |-> k - 1], LAMBDA bowl : p.bowls[bowl] > 0)

\* Position::options: the playable bowls, in the order of the iteration.
options(p) ==
    SelectSeq([k \in 1 .. p.size |-> k - 1], LAMBDA bowl : p.bowls[bowl] > 0)

\* Mutation: a position is finished as soon as either side is empty.
finished_on_either_side(p) ==
    \/ \A i \in 0 .. (p.size - 1) : p.bowls[i] = 0
    \/ \A i \in p.size .. (2 * p.size - 1) : p.bowls[i] = 0

\* Mutation: a position is finished only when both sides are empty.
finished_on_both_sides(p) == \A i \in 0 .. (2 * p.size - 1) : p.bowls[i] = 0

\* Position::finished
finished(p) == \A i \in 0 .. (p.size - 1) : p.bowls[i] = 0

\* Position::score: [kind |-> "Some", value |-> the score], [kind |-> "None"],
\* or kind "Panic" when an arithmetic check fails (the u8 sums, the i8
\* subtraction); without the checks the arithmetic wraps.
score(p, checks) ==
    LET first_exact == SliceSum(p.bowls, 0, p.size) + p.capture[0]
        second_exact == SliceSum(p.bowls, p.size, 2 * p.size) + p.capture[1]
        first == AsStones(first_exact)
        second == AsStones(second_exact)
        exact == AsScore(first) - AsScore(second)
        fits == /\ first_exact < StonesModulus
                /\ second_exact < StonesModulus
                /\ exact >= -ScoreLimit
                /\ exact < ScoreLimit
    IN  IF ~finished(p) THEN [kind |-> "None", value |-> 0]
        ELSE IF checks /\ ~fits THEN [kind |-> "Panic", value |-> 0]
        ELSE [kind |-> "Some",
              value |-> ((exact + ScoreLimit) % StonesModulus) - ScoreLimit]

\* Mutation: the subtraction is made in Stones, the casts are forgotten.
delta_in_stones(p) == AsStones(p.capture[0] - p.capture[1])

\* The i8 subtraction of delta leaves the type.
delta_overflows(p) ==
    LET exact == AsScore(p.capture[0]) - AsScore(p.capture[1])
    IN  exact < -ScoreLimit \/ exact >= ScoreLimit

\* Position::delta: capture[0] as Score - capture[1] as Score, wrapped to i8.
delta(p) ==
    ((AsScore(p.capture[0]) - AsScore(p.capture[1]) + ScoreLimit) % StonesModulus)
        - ScoreLimit

\* ------------------------------------------------------- Value and Depth
\* enum Value { NegativeInfinity, Actual(Score), PositiveInfinity }
NegativeInfinity == [tag |-> "NegativeInfinity", score |-> 0]

PositiveInfinity == [tag |-> "PositiveInfinity", score |-> 0]

Actual(s) == [tag |-> "Actual", score |-> s]

\* Value::opposite; -score is computed in i8 (-(-128) wraps where the build
\* does not check it).
opposite(v) ==
    IF v.tag = "NegativeInfinity" THEN PositiveInfinity
    ELSE IF v.tag = "PositiveInfinity" THEN NegativeInfinity
    ELSE Actual(((-v.score + ScoreLimit) % StonesModulus) - ScoreLimit)

\* `-score` on i8: the negation of -128 leaves the type; the build with
\* overflow checks panics there.
opposite_overflows(v) == v.tag = "Actual" /\ v.score = -ScoreLimit

\* Mutation: the Values are compared by their scores alone; an infinity
\* compares as Actual(0).
cmp_by_score(self, that) ==
    IF self.score < that.score THEN "Less"
    ELSE IF self.score = that.score THEN "Equal"
    ELSE "Greater"

\* impl Ord for Value: cmp
cmp(self, that) ==
    IF self.tag = "NegativeInfinity"
    THEN (IF that.tag = "NegativeInfinity" THEN "Equal" ELSE "Less")
    ELSE IF self.tag = "Actual"
    THEN (IF that.tag = "NegativeInfinity" THEN "Greater"
          ELSE IF that.tag = "PositiveInfinity" THEN "Less"
          ELSE IF self.score < that.score THEN "Less"
          ELSE IF self.score = that.score THEN "Equal"
          ELSE "Greater")
    ELSE (IF that.tag = "PositiveInfinity" THEN "Equal" ELSE "Greater")

\* a > b, a >= b and max(a, b) of two Values, as PartialOrd and Ord derive
\* them from cmp.
\* Mutation: a tie counts as greater.
gt_or_equal(a, b) == cmp(a, b) # "Less"

gt(a, b) == cmp(a, b) = "Greater"

ge(a, b) == cmp(a, b) # "Less"

max(a, b) == IF cmp(b, a) = "Less" THEN a ELSE b

\* enum Depth { Infinite, Limit(usize) }
Infinite == [tag |-> "Infinite", limit |-> 0]

Limit(n) == [tag |-> "Limit", limit |-> n]

\* usize: a value is written by the two's complement reading of its bits, so
\* that 0, 1, 2, .. are themselves and -1 is usize::MAX, -2 is usize::MAX - 1.
UsizeMax == -1

\* a <= b and a < b on usize.
usize_le(a, b) == IF (a < 0) = (b < 0) THEN a <= b ELSE a >= 0

usize_lt(a, b) == a # b /\ usize_le(a, b)

\* Depth::is_zero
is_zero(depth) == depth.tag = "Limit" /\ depth.limit = 0

\* Mutation: a limit loses two plies at every call.
decrement_by_two(depth) ==
    IF depth.tag = "Infinite" THEN Infinite
    ELSE IF depth.limit <= 1 THEN Limit(0)
    ELSE Limit(depth.limit - 2)

\* Mutation: the decrement of Limit(0) is not stopped: 0 - 1 wraps.
decrement_wrapping(depth) ==
    IF depth.tag = "Infinite" THEN Infinite
    ELSE Limit(depth.limit - 1)

\* Depth::decrement
decrement(depth) ==
    IF depth.tag = "Infinite" THEN Infinite
    ELSE IF depth.limit = 0 THEN Limit(0)
    ELSE Limit(depth.limit - 1)

\* Depth::increment; depth + 1 is computed in usize and wraps from usize::MAX
\* to 0 where the build does not check it.
increment(depth) ==
    IF depth.tag = "Infinite" THEN Infinite
    ELSE Limit(depth.limit + 1)

\* `depth + 1` on usize::MAX leaves the type; the build with overflow checks
\* panics there.
increment_overflows(depth) == depth.tag = "Limit" /\ depth.limit = UsizeMax

\* #[derive(PartialOrd)] for Depth: self <= that.  The variants compare in
\* the order of their declaration (Infinite before Limit), two limits as
\* their numbers.
depth_le(self, that) ==
    IF self.tag = "Infinite" THEN TRUE
    ELSE IF that.tag = "Infinite" THEN FALSE
    ELSE usize_le(self.limit, that.limit)

\* Depth::to: the DepthIterator.
to(self, limit) == [current |-> self, limit |-> limit]

\* DepthIterator::next: [kind, some, item, iterator]: the Option<Depth>
\* returned (item counts when some is TRUE) and the iterator as the call
\* leaves it; kind is "Panic" when the increment fails its check.
next(iterator, checks) ==
    IF depth_le(iterator.current, iterator.limit)
    THEN [kind |-> IF checks /\ increment_overflows(iterator.current)
                   THEN "Panic" ELSE "Return",
          some |-> TRUE,
          item |-> iterator.current,
          iterator |-> [iterator EXCEPT !.current = increment(@)]]
    ELSE [kind |-> "Return", some |-> FALSE, item |-> iterator.current,
          iterator |-> iterator]

\* Option<Bowl>
NoBowl == [some |-> FALSE, bowl |-> 0]

SomeBowl(bowl) == [some |-> TRUE, bowl |-> bowl]

\* ------------------------------------------------------------- MinMax
\* Analyzer::new
AnalyzerNew == [depth_counter |-> <<>>, current_depth |-> 0]

\* Mutation: a depth already in the map is not counted again.
count_first_visit_only(analyzer) ==
    LET d == analyzer.current_depth + 1 IN
    IF d \in DOMAIN analyzer.depth_counter
    THEN analyzer
    ELSE [analyzer EXCEPT !.depth_counter = Append(@, 1)]

\* Analyzer::count; depth d is kept at index d + 1 of depth_counter, and a
\* depth is only ever counted after every smaller one.
count(analyzer) ==
    LET d == analyzer.current_depth + 1 IN
    IF d \in DOMAIN analyzer.depth_counter
    THEN [analyzer EXCEPT !.depth_counter[d] = @ + 1]
    ELSE [analyzer EXCEPT !.depth_counter = Append(@, 1)]

\* Analyzer::increment_depth
increment_depth(analyzer) == [analyzer EXCEPT !.current_depth = @ + 1]

\* Mutation: the depth is not taken back after a subtree.
decrement_depth_forgotten(analyzer) == analyzer

\* Analyzer::decrement_depth
decrement_depth(analyzer) == [analyzer EXCEPT !.current_depth = @ - 1]

\* The heuristics: Delta, and closures Fn(&Position) -> Value, here the
\* closures that return one Value whatever the position.
evaluate(heuristic, p) ==
    IF heuristic.tag = "Delta" THEN Actual(delta(p)) ELSE heuristic

Delta == [tag |-> "Delta", score |-> 0]

\* How a call of Heuristic::evaluate ends: delta panics where its
\* subtraction overflows and the build checks it.
evaluate_end(heuristic, p, checks) ==
    IF heuristic.tag = "Delta" /\ checks /\ delta_overflows(p)
    THEN "Panic" ELSE "Return"

\* How a search ends at a position whose play or score does not return:
\* expect() panics on a None, a panic or a hang of the call is the search's.
search_end(kind) == IF kind = "Hang" THEN "Hang" ELSE "Panic"

RECURSIVE minmax(_, _, _)
RECURSIVE minmax_loop(_, _, _, _, _, _)

\* The body of `for bowl in position.options()` from the k-th option on, with
\* the best bowl and value so far: [kind, bowl, value, analyzer], kind
\* "Return" when the call returns.
minmax_loop(analyzer, p, k, best_bowl, best_value, checks) ==
    IF k > Len(options(p))
    THEN [kind |-> "Return", bowl |-> best_bowl, value |-> best_value,
          analyzer |-> analyzer]
    ELSE LET bowl == options(p)[k]
             candidate == play(p, bowl, checks)
             candidate_position == candidate.pos
             sub == minmax(increment_depth(analyzer), candidate_position, checks)
             turned == candidate_position.player # p.player
             value == IF turned THEN opposite(sub.value) ELSE sub.value
         IN  IF candidate.kind # "Some"
             THEN [kind |-> search_end(candidate.kind), bowl |-> best_bowl,
                   value |-> best_value, analyzer |-> analyzer]
             ELSE IF sub.kind # "Return" THEN sub
             ELSE IF turned /\ checks /\ opposite_overflows(sub.value)
             THEN [sub EXCEPT !.kind = "Panic", !.analyzer = decrement_depth(@)]
             ELSE IF gt(value, best_value)
             THEN minmax_loop(decrement_depth(sub.analyzer), p, k + 1,
                              SomeBowl(bowl), value, checks)
             ELSE minmax_loop(decrement_depth(sub.analyzer), p, k + 1,
                              best_bowl, best_value, checks)

\* fn minmax: [kind, bowl, value, analyzer]
minmax(analyzer, p, checks) ==
    IF finished(p)
    THEN [kind |-> IF score(p, checks).kind = "Some" THEN "Return" ELSE "Panic",
          bowl |-> NoBowl,
          value |-> Actual(score(p, checks).value),
          analyzer |-> count(analyzer)]
    ELSE minmax_loop(count(analyzer), p, 1, NoBowl, NegativeInfinity, checks)

\* The nodes an analyzer has counted (the sum Display prints).
RECURSIVE SeqSum(_)
SeqSum(seq) == IF seq = <<>> THEN 0 ELSE Head(seq) + SeqSum(Tail(seq))

node_count(analyzer) == SeqSum(analyzer.depth_counter)

\* ---------------------------------------------------------- AlphaBeta
RECURSIVE alpha_beta(_, _, _, _, _, _)
RECURSIVE alpha_beta_loop(_, _, _, _, _, _, _, _, _, _, _)

\* What a call of alpha_beta did with its position, `plies` recursive calls
\* below the call that reports it: "score" (finished, scored), "heuristic"
\* (valued by the heuristic) or "expanded" (its options were played).
Visit(plies, how) == [plies |-> plies, how |-> how]

\* The visits of a recursive call, as the calling alpha_beta reports them.
Below(visits) == {Visit(v.plies + 1, v.how) : v \in visits}

\* Mutation: the window handed to a child of the other player is negated but
\* not swapped.
child_window_unswapped(alpha, beta, same) ==
    IF same THEN [alpha |-> alpha, beta |-> beta]
    ELSE [alpha |-> opposite(alpha), beta |-> opposite(beta)]

\* The window of the recursive call: (alpha, beta) when the candidate keeps
\* the turn, (beta.opposite(), alpha.opposite()) when it does not.
child_window(alpha, beta, same) ==
    IF same THEN [alpha |-> alpha, beta |-> beta]
    ELSE [alpha |-> opposite(beta), beta |-> opposite(alpha)]

\* Mutation: a position the search stops at is always valued by the
\* heuristic.
terminal_by_heuristic(p, heuristic, checks) ==
    [kind |-> evaluate_end(heuristic, p, checks), bowl |-> NoBowl,
     value |-> evaluate(heuristic, p), nodes |-> 1, evals |-> 1,
     visits |-> {Visit(0, "heuristic")}]

\* What alpha_beta returns where it does not recurse: the score of a finished
\* position, the heuristic's value of any other.
terminal(p, heuristic, checks) ==
    IF finished(p)
    THEN [kind |-> IF score(p, checks).kind = "Some" THEN "Return" ELSE "Panic",
          bowl |-> NoBowl, value |-> Actual(score(p, checks).value),
          nodes |-> 1, evals |-> 0, visits |-> {Visit(0, "score")}]
    ELSE [kind |-> evaluate_end(heuristic, p, checks), bowl |-> NoBowl,
          value |-> evaluate(heuristic, p), nodes |-> 1, evals |-> 1,
          visits |-> {Visit(0, "heuristic")}]

\* The body of `for bowl in position.options()` from the k-th option on:
\* [kind, bowl, value, nodes, evals, visits], kind "Return" when the call
\* returns, nodes the calls of alpha_beta made so far below this one, evals
\* the calls of the heuristic among them and visits what the calls did.
alpha_beta_loop(p, alpha, beta, depth, heuristic, checks, k, best, nodes, evals, visits) ==
    IF k > Len(options(p))
    THEN [kind |-> "Return", bowl |-> best.bowl, value |-> best.value,
          nodes |-> nodes, evals |-> evals, visits |-> visits]
    ELSE LET bowl == options(p)[k]
             candidate == play(p, bowl, checks)
             candidate_position == candidate.pos
             same == candidate_position.player = p.player
             window == child_window(alpha, beta, same)
             tuple == alpha_beta(candidate_position, window.alpha, window.beta,
                                 decrement(depth), heuristic, checks)
             value == IF same THEN tuple.value ELSE opposite(tuple.value)
             new_best == IF gt(value, best.value)
                         THEN [bowl |-> SomeBowl(bowl), value |-> value]
                         ELSE best
             new_alpha == max(alpha, value)
             seen == visits \cup Below(tuple.visits)
             stopped(kind, n, e, v) ==
                 [kind |-> kind, bowl |-> best.bowl, value |-> best.value,
                  nodes |-> n, evals |-> e, visits |-> v]
         IN  IF candidate.kind # "Some"
             THEN stopped(search_end(candidate.kind), nodes, evals, visits)
             ELSE IF ~same /\ checks
                      /\ (opposite_overflows(alpha) \/ opposite_overflows(beta))
             THEN stopped("Panic", nodes, evals, visits)
             ELSE IF tuple.kind # "Return"
             THEN stopped(tuple.kind, nodes + tuple.nodes, evals + tuple.evals,
                          seen)
             ELSE IF ~same /\ checks /\ opposite_overflows(tuple.value)
             THEN stopped("Panic", nodes + tuple.nodes, evals + tuple.evals,
                          seen)
             ELSE IF ge(new_alpha, beta)
             THEN [kind |-> "Return", bowl |-> new_best.bowl,
                   value |-> new_best.value,
                   nodes |-> nodes + tuple.nodes, evals |-> evals + tuple.evals,
                   visits |-> seen]
             ELSE alpha_beta_loop(p, new_alpha, beta, depth, heuristic, checks,
                                  k + 1, new_best, nodes + tuple.nodes,
                                  evals + tuple.evals, seen)

\* fn alpha_beta: [kind, bowl, value, nodes, evals, visits], nodes and visits
\* counting this call.
alpha_beta(p, alpha_prime, beta, depth, heuristic, checks) ==
    IF finished(p) \/ is_zero(depth)
    THEN terminal(p, heuristic, checks)
    ELSE alpha_beta_loop(p, alpha_prime, beta, depth, heuristic, checks, 1,
                         [bowl |-> NoBowl, value |-> NegativeInfinity], 1, 0,
                         {Visit(0, "expanded")})

\* DepthLimitedSearch::search of AlphaBeta
search(p, search_depth, heuristic, checks) ==
    alpha_beta(p, NegativeInfinity, PositiveInfinity, search_depth, heuristic, checks)

\* ------------------------------------------------------------ the Game
\* The process is gone once a call panicked or hangs.
Running == outcome \notin {"Panic", "Hang"}

\* No search was made yet.
NoSearch == [by |-> "None"]

\* No bout was set up.
NoBout == [at |-> "None"]

\* No Strategy object is kept.
NoStrategy == [name |-> "None"]

\* No call was made on a Value or a Depth.
NoCall == [op |-> "None"]

\* GameBuilder::build, for every bowls and stones of the bounds.
Init ==
    /\ \E bowls \in 0 .. MaxBowls, stones \in 0 .. MaxStones :
           current = PositionNew(bowls, stones)
    /\ history = <<>>
    /\ before = current
    /\ played = 0
    /\ outcome = "New"
    /\ overflow_checks \in BOOLEAN
    /\ found = NoSearch
    /\ bout = NoBout
    /\ initial = current
    /\ searcher = NoStrategy
    /\ unit = NoCall

\* Mutation: the pair is pushed after the position was replaced, so it
\* records the player to move after the play.
GamePlayRecordingAfter(bowl) ==
    LET r == play(current, bowl, overflow_checks) IN
    /\ Running
    /\ Len(history) < MaxPlays
    /\ before' = current
    /\ played' = bowl
    /\ UNCHANGED <<overflow_checks, found, bout>>
    /\ UNCHANGED <<initial, searcher, unit>>
    /\ IF r.kind = "Some"
       THEN /\ history' = Append(history, <<r.pos.player, bowl>>)
            /\ current' = r.pos
            /\ outcome' = "Ok"
       ELSE /\ UNCHANGED <<current, history>>
            /\ outcome' = (IF r.kind = "None" THEN "Err" ELSE r.kind)

\* Game::play(bowl), for every index of the board.
GamePlay(bowl) ==
    LET r == play(current, bowl, overflow_checks) IN
    /\ Running
    /\ Len(history) < MaxPlays
    /\ before' = current
    /\ played' = bowl
    /\ UNCHANGED <<overflow_checks, found, bout>>
    /\ UNCHANGED <<initial, searcher, unit>>
    /\ IF r.kind = "Some"
       THEN /\ history' = Append(history, <<current.player, bowl>>)
            /\ current' = r.pos
            /\ outcome' = "Ok"
       ELSE /\ UNCHANGED <<current, history>>
            /\ outcome' = (IF r.kind = "None" THEN "Err" ELSE r.kind)

Next == \E bowl \in Board(current.size) : GamePlay(bowl)

Spec == Init /\ [][Next]_vars

\* ------------------------------------------------- Position on its own
\* The arrays of 2 * size bowls that hold at most MaxTotal stones.
Arrays(size) ==
    {f \in [Board(size) -> 0 .. MaxTotal] : SliceSum(f, 0, 2 * size) <= MaxTotal}

\* Position::from((player, c0, c1, [..; n])) for the arrays of the bounds.
InitPos ==
    /\ \E size \in 1 .. MaxBowls, player \in Players,
          c0 \in 0 .. MaxStore, c1 \in 0 .. MaxStore :
         \E bowls \in Arrays(size) :
            current = PositionFrom(player, c0, c1, bowls, 2 * size)
    /\ history = <<>>
    /\ before = current
    /\ played = 0
    /\ outcome = "New"
    /\ overflow_checks \in BOOLEAN
    /\ found = NoSearch
    /\ bout = NoBout
    /\ initial = current
    /\ searcher = NoStrategy
    /\ unit = NoCall

\* Position::play(bowl) on the position built, for every index of the board:
\* current becomes the position the call returns, when it returns one.
PositionPlay(bowl) ==
    LET r == play(current, bowl, overflow_checks) IN
    /\ outcome = "New"
    /\ before' = current
    /\ played' = bowl
    /\ outcome' = r.kind
    /\ current' = r.pos
    /\ UNCHANGED <<history, overflow_checks, found, bout>>
    /\ UNCHANGED <<initial, searcher, unit>>

NextPos == \E bowl \in Board(current.size) : PositionPlay(bowl)

SpecPos == InitPos /\ [][NextPos]_vars

\* ------------------------------------------------------- the searches
\* The depth budgets a search is configured with.
Depths == {Infinite} \cup {Limit(d) : d \in 0 .. MaxDepth}

\* The windows alpha_beta is called with are drawn from these Values.
Bounds == {NegativeInfinity, Actual(0), PositiveInfinity}

\* The heuristics: delta(), and a closure.
Heuristics == {Delta, Actual(0)}

\* The arrays of 2 * size bowls that hold at most `total` stones.
ArraysOf(size, total) ==
    {f \in [Board(size) -> 0 .. total] : SliceSum(f, 0, 2 * size) <= total}

\* Position::from((player, [..; n])): impl From<(Player, [Stones; n])>, for
\* the arrays the strategies are run on and the games are played from.
InitSearch ==
    /\ \E size \in 1 .. MaxBowls, player \in Players :
         \E bowls \in ArraysOf(size, SearchTotal) :
            current = PositionFrom(player, 0, 0, bowls, 2 * size)
    /\ history = <<>>
    /\ before = current
    /\ played = 0
    /\ outcome = "New"
    /\ overflow_checks \in BOOLEAN
    /\ found = NoSearch
    /\ bout = NoBout
    /\ initial = current
    /\ searcher = NoStrategy
    /\ unit = NoCall

\* MinMax::play on a new MinMax: the bowl and the value of minmax, the calls
\* its analyzer counted and the analyzer as the call leaves it.
MinMaxPlay ==
    LET r == minmax(AnalyzerNew, current, overflow_checks) IN
    /\ found.by = "None"
    /\ found' = [by |-> "MinMax", kind |-> r.kind,
                 depth |-> Infinite, heuristic |-> Delta,
                 alpha |-> NegativeInfinity, beta |-> PositiveInfinity,
                 bowl |-> r.bowl, value |-> r.value,
                 nodes |-> node_count(r.analyzer), evals |-> 0,
                 analyzer |-> r.analyzer]
    /\ UNCHANGED <<current, history, before, played, outcome, overflow_checks, bout>>
    /\ UNCHANGED <<initial, searcher, unit>>

\* AlphaBeta::play of AlphaBeta::strategy().limited_to(search_depth).build():
\* the delta heuristic and the full window.
AlphaBetaPlay(search_depth) ==
    LET r == search(current, search_depth, Delta, overflow_checks) IN
    /\ found.by = "None"
    /\ found' = [by |-> "AlphaBeta", kind |-> r.kind,
                 depth |-> search_depth, heuristic |-> Delta,
                 alpha |-> NegativeInfinity, beta |-> PositiveInfinity,
                 bowl |-> r.bowl, value |-> r.value,
                 nodes |-> r.nodes, evals |-> r.evals, visits |-> r.visits]
    /\ UNCHANGED <<current, history, before, played, outcome, overflow_checks, bout>>
    /\ UNCHANGED <<initial, searcher, unit>>

\* A call of alpha_beta with any window, depth and heuristic.
AlphaBetaCall(alpha, beta, search_depth, heuristic) ==
    LET r == alpha_beta(current, alpha, beta, search_depth, heuristic,
                        overflow_checks) IN
    /\ found.by = "None"
    /\ found' = [by |-> "alpha_beta", kind |-> r.kind, depth |-> search_depth,
                 heuristic |-> heuristic, alpha |-> alpha, beta |-> beta,
                 bowl |-> r.bowl, value |-> r.value,
                 nodes |-> r.nodes, evals |-> r.evals, visits |-> r.visits]
    /\ UNCHANGED <<current, history, before, played, outcome, overflow_checks, bout>>
    /\ UNCHANGED <<initial, searcher, unit>>

NextSearch ==
    \/ MinMaxPlay
    \/ \E search_depth \in Depths : AlphaBetaPlay(search_depth)

SpecSearch == InitSearch /\ [][NextSearch]_vars

\* Position::from((c0, c1, [..; n])): impl From<(Stones, Stones, [Stones; n])>,
\* for the arrays the recursions are called on.
InitCall ==
    /\ \E size \in 1 .. MaxBowls, c0 \in 0 .. MaxStore, c1 \in 0 .. MaxStore :
         \E bowls \in ArraysOf(size, CallTotal) :
            current = PositionFrom("Red", c0, c1, bowls, 2 * size)
    /\ history = <<>>
    /\ before = current
    /\ played = 0
    /\ outcome = "New"
    /\ overflow_checks \in BOOLEAN
    /\ found = NoSearch
    /\ bout = NoBout
    /\ initial = current
    /\ searcher = NoStrategy
    /\ unit = NoCall

NextCall ==
    \/ MinMaxPlay
    \/ \E alpha \in Bounds, beta \in Bounds, search_depth \in Depths,
          heuristic \in Heuristics :
            AlphaBetaCall(alpha, beta, search_depth, heuristic)

SpecCall == InitCall /\ [][NextCall]_vars

\* ------------------------------------------------------- legal play
\* One turn of `while !position.finished() { position = position.play(bowl) }`
\* with a bowl of options(), as the loops of position2 and of Bout::start
\* and the recursions of the searches make it; the plays are recorded as
\* Game::play records them.
LegalPlay(bowl) ==
    LET r == play(current, bowl, overflow_checks) IN
    /\ Running
    /\ ~finished(current)
    /\ \E k \in DOMAIN options(current) : options(current)[k] = bowl
    /\ before' = current
    /\ played' = bowl
    /\ outcome' = r.kind
    /\ IF r.kind = "Some"
       THEN /\ current' = r.pos
            /\ history' = Append(history, <<current.player, bowl>>)
       ELSE UNCHANGED <<current, history>>
    /\ UNCHANGED <<overflow_checks, found, bout>>
    /\ UNCHANGED <<initial, searcher, unit>>

NextLegal == \E bowl \in Board(current.size) : LegalPlay(bowl)

\* The loop runs on as long as the position is not finished.
SpecLegal == InitSearch /\ [][NextLegal]_vars /\ WF_vars(NextLegal)

\* ------------------------------------------------------------ the Bout
\* The strategies: AlphaBeta::strategy().limited_to(depth).build() (delta
\* heuristic), MinMax::new(), First, Random, and Other, an implementation of
\* the Strategy trait from outside the crate.
AlphaBeta(depth) == [name |-> "AlphaBeta", depth |-> depth]

Strategies ==
    {AlphaBeta(Infinite), AlphaBeta(Limit(0))}
        \cup {[name |-> n, depth |-> Infinite] :
                  n \in {"MinMax", "First", "Random", "Other"}}

\* What a call of Strategy::play on p can come to: [kind, bowl], kind
\* "Return" with the Option<Bowl> returned, or the kind of a call that does
\* not return.  Other returns None or any bowl of the board.
Answers(strategy, p, checks) ==
    IF strategy.name = "AlphaBeta"
    THEN LET r == search(p, strategy.depth, Delta, checks)
         IN  {[kind |-> r.kind, bowl |-> r.bowl]}
    ELSE IF strategy.name = "MinMax"
    THEN LET r == minmax(AnalyzerNew, p, checks)
         IN  {[kind |-> r.kind, bowl |-> r.bowl]}
    ELSE IF strategy.name = "First"
    THEN {[kind |-> "Return",
           bowl |-> IF Len(options(p)) = 0 THEN NoBowl
                    ELSE SomeBowl(options(p)[1])]}
    ELSE IF strategy.name = "Random"
    THEN IF Len(options(p)) = 0 THEN {[kind |-> "Return", bowl |-> NoBowl]}
         ELSE {[kind |-> "Return", bowl |-> SomeBowl(options(p)[k])] :
                  k \in DOMAIN options(p)}
    ELSE {[kind |-> "Return", bowl |-> NoBowl]}
             \cup {[kind |-> "Return", bowl |-> SomeBowl(bowl)] :
                      bowl \in Board(p.size)}

\* Result<(), Problem> and Result<Game, Problem>
Ok == [ok |-> TRUE, problem |-> "None", player |-> "None"]

Err(problem, player) == [ok |-> FALSE, problem |-> problem, player |-> player]

\* Mutation: the result starts as Ok.
start_result_ok == Ok

\* let mut result = Err(Problem::RightOutOfTheGate)
start_result == Err("RightOutOfTheGate", "None")

\* The result of one turn of the loop: of the bowl the strategy offered and
\* what Game::play made of it (kind "Some" or "None"), for the player to move.
turn_result(offer, kind, player) ==
    IF offer.some
    THEN IF kind = "Some" THEN Ok ELSE Err("IllegalPlay", player)
    ELSE Err("NoPlay", player)

\* Mutation: the loop does not leave on an error.
after_turn_without_break(result) == "Loop"

\* if result.is_err() { break; }: where Bout::start is after a turn.
after_turn(result) == IF result.ok THEN "Loop" ELSE "Returned"

\* Mutation: the strategies are consulted the wrong way round.
strategy_of_the_other(turn) == IF turn = "Red" THEN "blue" ELSE "red"

\* match game.turn(): the field of the Bout whose strategy is consulted,
\* red (red_strategy) or blue (blue_strategy).
strategy_of(turn) == IF turn = "Red" THEN "red" ELSE "blue"

\* The fresh games a bout is started on: <<bowls, stones>>.
FreshBoards ==
    {board \in (0 .. MaxBowls) \X (0 .. MaxStones) :
        2 * board[1] * board[2] <= BoutTotal}

\* Bout::new and GameBuilder::build: two strategies and a fresh game; the
\* heavy board is played by two default AlphaBeta strategies.
InitBout ==
    /\ \E red \in Strategies, blue \in Strategies :
         \E board \in FreshBoards \cup {<<1, HeavyStones>>} :
            /\ board[2] = HeavyStones =>
                   (red = AlphaBeta(Infinite) /\ blue = AlphaBeta(Infinite))
            /\ current = PositionNew(board[1], board[2])
            /\ bout = [at |-> "New", red |-> red, blue |-> blue,
                       result |-> Ok, consulted |-> 0, offer |-> NoBowl,
                       handed |-> current, asked |-> <<>>]
    /\ history = <<>>
    /\ before = current
    /\ played = 0
    /\ outcome = "New"
    /\ overflow_checks \in BOOLEAN
    /\ found = NoSearch
    /\ initial = current
    /\ searcher = NoStrategy
    /\ unit = NoCall

\* Bout::start(game), up to the loop.
BoutStart ==
    /\ bout.at = "New"
    /\ bout' = [bout EXCEPT !.at = "Loop", !.result = start_result]
    /\ UNCHANGED <<current, history, before, played, outcome, overflow_checks, found>>
    /\ UNCHANGED <<initial, searcher, unit>>

\* One turn of the loop of Bout::start: the strategy of the player to move
\* is consulted, its bowl is played with Game::play, and the loop is left on
\* an error.  A strategy or a play that does not return takes the bout with
\* it.  asked lists the fields whose strategy was consulted, turn by turn.
BoutTurn(answer) ==
    LET r == play(current, answer.bowl.bowl, overflow_checks)
        result == turn_result(answer.bowl, r.kind, current.player)
        whose == strategy_of(current.player)
    IN  /\ bout.at = "Loop"
        /\ ~finished(current)
        /\ before' = current
        /\ UNCHANGED <<overflow_checks, found>>
        /\ UNCHANGED <<initial, searcher, unit>>
        /\ IF answer.kind # "Return"
           THEN /\ bout' = [bout EXCEPT !.at = "Dead", !.consulted = @ + 1,
                                        !.offer = NoBowl,
                                        !.asked = Append(@, whose)]
                /\ outcome' = answer.kind
                /\ UNCHANGED <<current, history, played>>
           ELSE IF answer.bowl.some /\ r.kind \in {"Panic", "Hang"}
           THEN /\ bout' = [bout EXCEPT !.at = "Dead", !.consulted = @ + 1,
                                        !.offer = answer.bowl,
                                        !.asked = Append(@, whose)]
                /\ outcome' = r.kind
                /\ played' = answer.bowl.bowl
                /\ UNCHANGED <<current, history>>
           ELSE /\ bout' = [bout EXCEPT !.at = after_turn(result),
                                        !.result = result,
                                        !.consulted = @ + 1,
                                        !.offer = answer.bowl,
                                        !.asked = Append(@, whose)]
                /\ outcome' = IF result.ok THEN "Ok" ELSE "Err"
                /\ played' = answer.bowl.bowl
                /\ IF result.ok
                   THEN /\ history' = Append(history,
                                             <<current.player, answer.bowl.bowl>>)
                        /\ current' = r.pos
                   ELSE UNCHANGED <<current, history>>

\* The loop ends on a finished game: result.map(|_| game).
BoutReturn ==
    /\ bout.at = "Loop"
    /\ finished(current)
    /\ bout' = [bout EXCEPT !.at = "Returned"]
    /\ UNCHANGED <<current, history, before, played, outcome, overflow_checks, found>>
    /\ UNCHANGED <<initial, searcher, unit>>

\* What the strategy of the player to move can answer in the loop.
Offers ==
    IF bout.at = "Loop" /\ ~finished(current)
    THEN Answers(bout[strategy_of(current.player)], current, overflow_checks)
    ELSE {}

NextBout ==
    \/ BoutStart
    \/ \E answer \in Offers : BoutTurn(answer)
    \/ BoutReturn

SpecBout == InitBout /\ [][NextBout]_vars

\* ------------------------------------------- calls on Values and Depths
\* Every Score (i8) and every Value.
Scores == (-ScoreLimit) .. (ScoreLimit - 1)

Values == {NegativeInfinity, PositiveInfinity} \cup {Actual(s) : s \in Scores}

\* The usize numbers the Depths are made of: 0 .. MaxLimit and the two
\* greatest, usize::MAX - 1 and usize::MAX.
Limits == (0 .. MaxLimit) \cup {UsizeMax - 1, UsizeMax}

\* No game is involved: the board is Position::new(0, 0).
InitUnit ==
    /\ current = PositionNew(0, 0)
    /\ history = <<>>
    /\ before = current
    /\ played = 0
    /\ outcome = "New"
    /\ overflow_checks \in BOOLEAN
    /\ found = NoSearch
    /\ bout = NoBout
    /\ initial = current
    /\ searcher = NoStrategy
    /\ unit = NoCall

\* self.cmp(&that) on two Values.
ValueCmp(self, that) ==
    /\ unit.op = "None"
    /\ unit' = [op |-> "cmp", self |-> self, that |-> that,
                result |-> cmp(self, that)]
    /\ UNCHANGED <<current, history, before, played, outcome, overflow_checks,
                   found, bout, initial, searcher>>

\* self.opposite().opposite() on a Value: what the first call returns (once),
\* what the second returns (result), and how the expression ends.
ValueOpposite(self) ==
    /\ unit.op = "None"
    /\ unit' = [op |-> "opposite", self |-> self,
                kind |-> IF overflow_checks
                            /\ (opposite_overflows(self)
                                \/ opposite_overflows(opposite(self)))
                         THEN "Panic" ELSE "Return",
                once |-> opposite(self),
                result |-> opposite(opposite(self))]
    /\ UNCHANGED <<current, history, before, played, outcome, overflow_checks,
                   found, bout, initial, searcher>>

\* A Depth is made: Depth::Infinite or Depth::Limit(n).
DepthNew(depth) ==
    /\ unit.op = "None"
    /\ unit' = [op |-> "decrement", start |-> depth, self |-> depth, steps |-> 0]
    /\ UNCHANGED <<current, history, before, played, outcome, overflow_checks,
                   found, bout, initial, searcher>>

\* self.decrement() on the Depth the last call returned.
DepthDecrement ==
    /\ unit.op = "decrement"
    /\ unit.steps < MaxSteps
    /\ unit' = [unit EXCEPT !.self = decrement(@), !.steps = @ + 1]
    /\ UNCHANGED <<current, history, before, played, outcome, overflow_checks,
                   found, bout, initial, searcher>>

\* self.to(limit): a DepthIterator is made.
DepthTo(self, limit) ==
    /\ unit.op = "None"
    /\ unit' = [op |-> "to", self |-> self, limit |-> limit,
                iterator |-> to(self, limit), yielded |-> <<>>,
                kind |-> "Return", ended |-> FALSE]
    /\ UNCHANGED <<current, history, before, played, outcome, overflow_checks,
                   found, bout, initial, searcher>>

\* One turn of `for depth in self.to(limit)`: next() is called until it
\* returns None; a call that panics ends the loop as well.
IteratorNext ==
    LET r == next(unit.iterator, overflow_checks) IN
    /\ unit.op = "to"
    /\ unit.kind = "Return"
    /\ ~unit.ended
    /\ Len(unit.yielded) < MaxYield
    /\ unit' = [unit EXCEPT
                   !.kind = r.kind,
                   !.iterator = IF r.kind = "Return" THEN r.iterator ELSE @,
                   !.yielded = IF r.kind = "Return" /\ r.some
                               THEN Append(@, r.item) ELSE @,
                   !.ended = r.kind = "Return" /\ ~r.some]
    /\ UNCHANGED <<current, history, before, played, outcome, overflow_checks,
                   found, bout, initial, searcher>>

\* The values a first call is made with; no second object is made.
Fresh(values) == IF unit.op = "None" THEN values ELSE {}

NextUnit ==
    \/ \E self \in Fresh(Values), that \in Fresh(Values) : ValueCmp(self, that)
    \/ \E self \in Fresh(Values) : ValueOpposite(self)
    \/ \E n \in Fresh(Limits) : DepthNew(Limit(n))
    \/ DepthNew(Infinite)
    \/ DepthDecrement
    \/ \E a \in Fresh(Limits), b \in Fresh(Limits) : DepthTo(Limit(a), Limit(b))
    \/ IteratorNext

SpecUnit == InitUnit /\ [][NextUnit]_vars

\* ------------------------------------------- a Strategy that is kept
\* The Strategy objects that are kept between calls: MinMax::new() with its
\* analyzer, and AlphaBeta::strategy().limited_to(depth).build().
Kept(name, depth) ==
    [name |-> name, depth |-> depth, analyzer |-> AnalyzerNew, log |-> <<>>]

\* Position::from((player, [..; n])) for the arrays of at most AgainTotal
\* stones, and one Strategy object.
InitAgain ==
    /\ \E size \in 1 .. MaxBowls, player \in Players :
         \E bowls \in ArraysOf(size, AgainTotal) :
            current = PositionFrom(player, 0, 0, bowls, 2 * size)
    /\ history = <<>>
    /\ before = current
    /\ played = 0
    /\ outcome = "New"
    /\ overflow_checks \in BOOLEAN
    /\ found = NoSearch
    /\ bout = NoBout
    /\ initial = current
    /\ searcher \in {Kept("MinMax", Infinite), Kept("AlphaBeta", Infinite),
                     Kept("AlphaBeta", Limit(1))}
    /\ unit = NoCall

\* The positions the object is consulted on: the one built and the ones a
\* play of it leads to.
Consulted ==
    {current} \cup {play(current, options(current)[k], overflow_checks).pos :
                       k \in DOMAIN options(current)}

\* Mutation: a MinMax whose analyzer has counted nodes offers nothing.
MinMaxAgainByTelemetry(p) ==
    LET r == minmax(searcher.analyzer, p, overflow_checks)
        bowl == IF node_count(searcher.analyzer) > 0 THEN NoBowl ELSE r.bowl
    IN
    /\ searcher.name = "MinMax"
    /\ Len(searcher.log) < MaxCalls
    /\ IF found.by = "None" THEN TRUE ELSE found.kind = "Return"
    /\ found' = [by |-> searcher.name, kind |-> r.kind, on |-> p,
                 bowl |-> bowl, value |-> r.value]
    /\ searcher' = [searcher EXCEPT
                       !.analyzer = r.analyzer,
                       !.log = Append(@, [on |-> p, bowl |-> bowl])]
    /\ UNCHANGED <<current, history, before, played, outcome, overflow_checks,
                   bout, initial, unit>>

\* One call of MinMax::play on the kept object: minmax works on
\* self.analyzer, which is the object's from then on; the answer is logged.
MinMaxAgain(p) ==
    LET r == minmax(searcher.analyzer, p, overflow_checks) IN
    /\ searcher.name = "MinMax"
    /\ Len(searcher.log) < MaxCalls
    /\ IF found.by = "None" THEN TRUE ELSE found.kind = "Return"
    /\ found' = [by |-> searcher.name, kind |-> r.kind, on |-> p,
                 bowl |-> r.bowl, value |-> r.value]
    /\ searcher' = [searcher EXCEPT
                       !.analyzer = r.analyzer,
                       !.log = Append(@, [on |-> p, bowl |-> r.bowl])]
    /\ UNCHANGED <<current, history, before, played, outcome, overflow_checks,
                   bout, initial, unit>>

\* One call of AlphaBeta::play on the kept object: it reads search_depth
\* and heuristic; the answer is logged.
AlphaBetaAgain(p) ==
    LET r == search(p, searcher.depth, Delta, overflow_checks) IN
    /\ searcher.name = "AlphaBeta"
    /\ Len(searcher.log) < MaxCalls
    /\ IF found.by = "None" THEN TRUE ELSE found.kind = "Return"
    /\ found' = [by |-> searcher.name, kind |-> r.kind, on |-> p,
                 bowl |-> r.bowl, value |-> r.value]
    /\ searcher' = [searcher EXCEPT
                       !.log = Append(@, [on |-> p, bowl |-> r.bowl])]
    /\ UNCHANGED <<current, history, before, played, outcome, overflow_checks,
                   bout, initial, unit>>

NextAgain ==
    \/ \E p \in Consulted : MinMaxAgain(p)
    \/ \E p \in Consulted : AlphaBetaAgain(p)

SpecAgain == InitAgain /\ [][NextAgain]_vars

\* ------------------------------------------------- boards of 127 stones
\* Position::from((player, c0, c1, [..; n])) for the boards that hold
\* i8::MAX stones in all: an array of at most HeavyRest stones, and the rest
\* in one place: bowl i (place i), c0 (place 2 * size) or c1 (the place
\* after it).
Places(size) == 0 .. (2 * size + 1)

HeavyFrom(player, size, bowls, place) ==
    LET rest == (ScoreLimit - 1) - SliceSum(bowls, 0, 2 * size)
    IN  PositionFrom(player,
                     IF place = 2 * size THEN rest ELSE 0,
                     IF place = 2 * size + 1 THEN rest ELSE 0,
                     [i \in Board(size) |->
                         IF place = i THEN bowls[i] + rest ELSE bowls[i]],
                     2 * size)

InitHeavy ==
    /\ \E size \in 1 .. MaxBowls, player \in Players :
         \E bowls \in ArraysOf(size, HeavyRest), place \in Places(size) :
            current = HeavyFrom(player, size, bowls, place)
    /\ history = <<>>
    /\ before = current
    /\ played = 0
    /\ outcome = "New"
    /\ overflow_checks \in BOOLEAN
    /\ found = NoSearch
    /\ bout = NoBout
    /\ initial = current
    /\ searcher = NoStrategy
    /\ unit = NoCall

\* The searches without a depth limit are run where the whole tree is small:
\* on one bowl a side, and on bowls that hold at most HeavyRest stones.
Light(p) == p.size = 1 \/ SliceSum(p.bowls, 0, 2 * p.size) <= HeavyRest

\* The depth budgets AlphaBeta is given on p.
LightDepths(p) == IF Light(p) THEN Depths ELSE Depths \ {Infinite}

NextHeavy ==
    \/ Light(current) /\ MinMaxPlay
    \/ \E search_depth \in LightDepths(current) : AlphaBetaPlay(search_depth)

SpecHeavy == InitHeavy /\ [][NextHeavy]_vars

\* ------------------------------------------------ alpha_beta and windows
\* The ends of the windows alpha_beta is called with, and the windows with
\* alpha < beta among them.
Edges == {NegativeInfinity, Actual(0), Actual(1), PositiveInfinity}

Windows == {window \in Edges \X Edges : cmp(window[1], window[2]) = "Less"}

\* Position::from([..; n]): impl From<[Stones; n]>, for the arrays of at most
\* WindowTotal stones, in the build that checks its arithmetic (no sum of so
\* few stones leaves its type, the other build computes the same).
InitWindow ==
    /\ \E size \in 1 .. MaxBowls :
         \E bowls \in ArraysOf(size, WindowTotal) :
            current = PositionFrom("Red", 0, 0, bowls, 2 * size)
    /\ history = <<>>
    /\ before = current
    /\ played = 0
    /\ outcome = "New"
    /\ overflow_checks = TRUE
    /\ found = NoSearch
    /\ bout = NoBout
    /\ initial = current
    /\ searcher = NoStrategy
    /\ unit = NoCall

NextWindow ==
    \E window \in Windows, search_depth \in Depths :
        AlphaBetaCall(window[1], window[2], search_depth, Delta)

SpecWindow == InitWindow /\ [][NextWindow]_vars

\* ------------------------------------------- IterativeDeepeningSearch
RECURSIVE ids_loop(_, _, _, _, _)

\* if candidate_value > best_value { .. }: the best bowl and value after a
\* search.
ids_best(best, candidate) ==
    IF gt(candidate.value, best.value)
    THEN [bowl |-> candidate.bowl, value |-> candidate.value]
    ELSE best

\* The body of the loop once the search of this turn was made.
ids_turn(iterator, p, best, candidate, searches, checks) ==
    IF candidate.kind # "Return"
    THEN [kind |-> candidate.kind, bowl |-> best.bowl, value |-> best.value,
          searches |-> searches]
    ELSE ids_loop(iterator, p, ids_best(best, candidate), searches, checks)

\* The body of `for current_depth in Depth::Limit(1).to(self.max_depth)`
\* from the iterator's next depth on, with the best bowl and value so far
\* and the searches made: [kind, bowl, value, searches].  A call of next or
\* of search that does not return takes the loop with it.
ids_loop(iterator, p, best, searches, checks) ==
    LET step == next(iterator, checks)
    IN  IF step.kind = "Return" /\ step.some
        THEN ids_turn(step.iterator, p, best,
                      search(p, step.item, Delta, checks), searches + 1, checks)
        ELSE [kind |-> step.kind, bowl |-> best.bowl, value |-> best.value,
              searches |-> searches]

\* IterativeDeepeningSearch::play, the searcher an AlphaBeta with the delta
\* heuristic.
ids_play(p, max_depth, checks) ==
    ids_loop(to(Limit(1), max_depth), p,
             [bowl |-> NoBowl, value |-> NegativeInfinity], 0, checks)

\* One call of IterativeDeepeningSearch::play on the position built.
IdsPlay(max_depth) ==
    LET r == ids_play(current, max_depth, overflow_checks) IN
    /\ found.by = "None"
    /\ found' = [by |-> "Ids", kind |-> r.kind, depth |-> max_depth,
                 heuristic |-> Delta, bowl |-> r.bowl, value |-> r.value,
                 searches |-> r.searches]
    /\ UNCHANGED <<current, history, before, played, outcome, overflow_checks, bout>>
    /\ UNCHANGED <<initial, searcher, unit>>

NextIds == \E max_depth \in Depths : IdsPlay(max_depth)

SpecIds == InitSearch /\ [][NextIds]_vars

\* ------------------------------------------- Position at the end of u8
\* The greatest values of Stones, and no stone.
WideStones == {0} \cup {StonesModulus - 1 - k : k \in 0 .. WideRest}

\* Position::from((player, c0, c1, [..; 2 * size])) with `stones` at one
\* place: a bowl, capture[0] (place 2 * size) or capture[1] (2 * size + 1).
WideFrom(player, size, bowls, place, stones) ==
    PositionFrom(player,
                 IF place = 2 * size THEN stones ELSE 0,
                 IF place = 2 * size + 1 THEN stones ELSE 0,
                 [i \in Board(size) |-> IF place = i THEN stones ELSE bowls[i]],
                 2 * size)

\* Position::from for the boards that hold the greatest values of Stones at
\* one place, under both builds.
InitWide ==
    /\ \E size \in 1 .. MaxBowls, player \in Players :
         \E bowls \in ArraysOf(size, WideTotal), place \in Places(size),
            stones \in WideStones :
            current = WideFrom(player, size, bowls, place, stones)
    /\ history = <<>>
    /\ before = current
    /\ played = 0
    /\ outcome = "New"
    /\ overflow_checks \in BOOLEAN
    /\ found = NoSearch
    /\ bout = NoBout
    /\ initial = current
    /\ searcher = NoStrategy
    /\ unit = NoCall

\* Position::play(bowl) on these positions, for every index of the board.
SpecWide == InitWide /\ [][NextPos]_vars

\* =====================================================================
\* Properties
\* =====================================================================

\* The last call of play returned a new position: current is that position,
\* before is the position it was called on and played the bowl.
Returned == outcome \in {"Some", "Ok"}

\* The bowl of the last call was a bowl of the mover's own side.
OwnSide == played < before.size

\* sum(bowls) + capture[0] + capture[1]
Total(p) == SliceSum(p.bowls, 0, 2 * p.size) + p.capture[0] + p.capture[1]

\* full_laps and landing_index of the last call, as the specification
\* defines them.
FullLaps == before.bowls[played] \div (2 * before.size + 1)

LandingIndex == played + (before.bowls[played] % (2 * before.size + 1))

\* The result of the last call seen from the mover: the bowls before any
\* rotation and the mover's store, read through the player tag.
TurnKept == current.player = before.player

ResultBowls ==
    IF TurnKept THEN current.bowls
    ELSE [j \in Board(before.size) |->
              current.bowls[(j + before.size) % (2 * before.size)]]

ResultStore == IF TurnKept THEN current.capture[0] ELSE current.capture[1]

OtherStore == IF TurnKept THEN current.capture[1] ELSE current.capture[0]

\* The reference sowing.  The circuit has 2 * size + 1 slots: slot s < size
\* is bowl s, slot size is the mover's store, slot s > size is bowl s - 1.
SlotOfBowl(p, bowl) == IF bowl < p.size THEN bowl ELSE bowl + 1

\* `stones` stones dropped one at a time into the slots after `at`: the first
\* half of them, then, on the slots these left, the others.
RECURSIVE RefDrop(_, _, _, _)
RefDrop(slots, at, stones, len) ==
    IF stones = 0 THEN slots
    ELSE IF stones = 1 THEN [slots EXCEPT ![(at + 1) % len] = @ + 1]
    ELSE LET half == stones \div 2
             first == RefDrop(slots, at, half, len)
         IN  IF DOMAIN first = DOMAIN slots
             THEN RefDrop(first, (at + half) % len, stones - half, len)
             ELSE slots

RefSow(p, bowl) ==
    LET start == [s \in 0 .. (2 * p.size) |->
                     IF s = p.size THEN p.capture[0]
                     ELSE IF s = SlotOfBowl(p, bowl) THEN 0
                     ELSE IF s < p.size THEN p.bowls[s]
                     ELSE p.bowls[s - 1]]
    IN  RefDrop(start, SlotOfBowl(p, bowl), p.bowls[bowl], 2 * p.size + 1)

\* The slot the last stone of the reference sowing falls into.
RefLanding(p, bowl) ==
    (SlotOfBowl(p, bowl) + p.bowls[bowl]) % (2 * p.size + 1)

\* C1: stone conservation: a play that returns a position returns one with
\* the same sum(bowls) + capture[0] + capture[1] as the position played.
StoneConservation ==
    Returned => Total(current) = Total(before)

\* C2: the bowls and the mover's store after the sowing loop of an own-side
\* bowl are those of the reference sowing; when nothing is captured they are
\* the bowls and the store of the position play returns.
ReferenceSowing ==
    (Returned /\ OwnSide) =>
        LET ref == RefSow(before, played)
            store == before.capture[0] + capture_gain(before, played)
                        - captured(before, played)
        IN  /\ \A i \in Board(before.size) :
                   sown_bowls(before, played)[i] = ref[SlotOfBowl(before, i)]
            /\ store = ref[before.size]
            /\ ~captures(before, played) =>
                   /\ \A i \in Board(before.size) :
                          ResultBowls[i] = ref[SlotOfBowl(before, i)]
                   /\ ResultStore = ref[before.size]

\* C3: the turn is kept exactly when landing_index = size, which for an
\* own-side bowl is when the last stone of the reference sowing falls into
\* the store; then tag, capture pair and bowls keep their order, else the tag
\* becomes the other player, the pair is swapped and the bowls are rotated
\* left by size.
TurnRule ==
    Returned =>
        LET size == before.size
            unrotated == captured_bowls(before, played)
            store == before.capture[0] + capture_gain(before, played)
        IN  /\ OwnSide => ((LandingIndex = size) <=> (RefLanding(before, played) = size))
            /\ IF LandingIndex = size
               THEN /\ current.player = before.player
                    /\ current.capture[0] = store
                    /\ current.capture[1] = before.capture[1]
                    /\ current.bowls = unrotated
               ELSE /\ current.player = other(before.player)
                    /\ current.capture[0] = before.capture[1]
                    /\ current.capture[1] = store
                    /\ \A i \in Board(size) :
                           current.bowls[i] = unrotated[(i + size) % (2 * size)]

\* A sow of a full lap and more that ended in the store and kept the turn.
TurnRuleWitness ==
    /\ Returned
    /\ FullLaps >= 1
    /\ LandingIndex = before.size
    /\ current.player = before.player

\* C4: the capture rule: with landing_index < size and exactly 1 stone in the
\* landing bowl after sowing, the opposite bowl's content goes to the mover's
\* store, the opposite bowl becomes 0 and the landing stone stays; otherwise
\* the bowls are the sown bowls, none emptied by a capture.
CaptureRule ==
    Returned =>
        LET size == before.size
            sown == sown_bowls(before, played)
            facing == 2 * size - 1 - LandingIndex
            passed == IF LandingIndex >= size THEN 1 ELSE 0
        IN  IF LandingIndex < size /\ sown[LandingIndex] = 1
            THEN /\ ResultBowls[facing] = 0
                 /\ ResultBowls[LandingIndex] = 1
                 /\ ResultStore = before.capture[0] + FullLaps + sown[facing]
                 /\ \A i \in Board(size) \ {facing} : ResultBowls[i] = sown[i]
            ELSE /\ ResultBowls = sown
                 /\ ResultStore = before.capture[0] + FullLaps + passed

\* C5: whenever the last stone of the sowing of an own-side bowl falls into a
\* bowl of the mover's side that was empty before the move, the stones of the
\* opposite bowl are moved into the mover's store, whatever the number of
\* stones sown (full laps, or past the store and the far side and back onto
\* the mover's side).
CaptureOnEmptyLanding ==
    (Returned /\ OwnSide) =>
        LET size == before.size
            ref == RefSow(before, played)
            land == RefLanding(before, played)
            facing == 2 * size - 1 - land
        IN  (land < size /\ before.bowls[land] = 0) =>
                /\ ResultBowls[facing] = 0
                /\ ResultStore = ref[size] + ref[SlotOfBowl(before, facing)]

\* The second sentence of C5: a landing bowl that holds exactly 1 stone after
\* sowing was empty before the sow.  A sow of exactly 2 * size + 1 stones ends
\* in the bowl it began in, which held the stones sown.
LandingOneWasEmpty ==
    (Returned /\ OwnSide) =>
        ((LandingIndex < before.size
            /\ sown_bowls(before, played)[LandingIndex] = 1)
         => before.bowls[LandingIndex] = 0)

\* The stones the mover's store gained by the last call, and the stones the
\* capture rule took.
StoreGain == ResultStore - before.capture[0]

CapturedAmount ==
    IF /\ LandingIndex < before.size
       /\ sown_bowls(before, played)[LandingIndex] = 1
    THEN sown_bowls(before, played)[2 * before.size - 1 - LandingIndex]
    ELSE 0

\* The position the last call was made on holds no more stones than Stones
\* can count, so that no count of sow leaves the type.
FitsStones == Total(before) < StonesModulus

FinishedRule ==
    LET own == SliceSum(current.bowls, 0, current.size)
        far == SliceSum(current.bowls, current.size, 2 * current.size)
    IN  /\ finished(current) <=> (own = 0)
        /\ (far = 0 /\ own > 0) => ~finished(current)
        /\ (own = 0 /\ far > 0) => finished(current)

\* A play left the new mover without a stone while the far side holds some.
FinishedRuleWitness ==
    /\ Returned
    /\ finished(current)
    /\ SliceSum(current.bowls, current.size, 2 * current.size) > 0

\* C8: score() of a finished position is Some of (own bowls + capture[0]) -
\* (far bowls + capture[1]); of a position that is not finished it is None.
ScoreRule ==
    LET own == SliceSum(current.bowls, 0, current.size) + current.capture[0]
        far == SliceSum(current.bowls, current.size, 2 * current.size)
                   + current.capture[1]
        s == score(current, overflow_checks)
    IN  IF finished(current)
        THEN s.kind = "Some" /\ s.value = own - far
        ELSE s.kind = "None"

\* C9: Position::play returns nothing if and only if the bowl is empty, and
\* a new position for every bowl of the board that holds a stone.
PlayRejectsOnlyEmptyBowl ==
    outcome # "New" =>
        /\ (outcome = "None") <=> (before.bowls[played] = 0)
        /\ before.bowls[played] > 0 => outcome = "Some"

\* C10: Game::play on an empty bowl returns Err and leaves the current
\* position and the history as they were, and a play of a bowl that holds a
\* stone after such an Err succeeds.
FoulPlayStep ==
    /\ current.bowls[played'] = 0 =>
           /\ outcome' = "Err"
           /\ current' = current
           /\ history' = history
    /\ (outcome = "Err" /\ current.bowls[played'] > 0) => outcome' = "Ok"

FoulPlayLeavesGame == [][FoulPlayStep]_vars

\* --------------------------------------------------------- the searches
\* What MinMax returns on the position the last search was made on.
MinMaxHere == minmax(AnalyzerNew, current, overflow_checks)

\* The last search was AlphaBeta::play with the delta heuristic.
ByAlphaBeta == found.by = "AlphaBeta"

RECURSIVE Plies(_, _)
RECURSIVE PliesFrom(_, _, _)
PliesFrom(p, k, checks) ==
    IF k > Len(options(p)) THEN 0
    ELSE LET here == 1 + Plies(play(p, options(p)[k], checks).pos, checks)
             rest == PliesFrom(p, k + 1, checks)
         IN  IF here > rest THEN here ELSE rest

Plies(p, checks) == IF finished(p) THEN 0 ELSE PliesFrom(p, 1, checks)

AlphaBetaVisitsNoMore ==
    ByAlphaBeta => found.nodes <= node_count(MinMaxHere.analyzer)

\* A search that went below the root and made fewer calls than MinMax: an
\* unbounded one that pruned.
AlphaBetaVisitsNoMoreWitness ==
    /\ ByAlphaBeta
    /\ found.depth = Infinite
    /\ found.nodes >= 3
    /\ found.nodes < node_count(MinMaxHere.analyzer)
    /\ found.value = MinMaxHere.value

\* The negamax value of a position, as the specification defines it: the
\* score of a finished position, else the greatest value a bowl of options()
\* leads to, the value of a child being negated when the turn passed.
RECURSIVE Negamax(_, _)
Playable(p) == {options(p)[k] : k \in DOMAIN options(p)}

ChildValue(p, bowl, checks) ==
    LET child == play(p, bowl, checks).pos
    IN  IF child.player # p.player
        THEN 0 - Negamax(child, checks)
        ELSE Negamax(child, checks)

Negamax(p, checks) ==
    IF finished(p) THEN score(p, checks).value
    ELSE LET values == {ChildValue(p, bowl, checks) : bowl \in Playable(p)}
         IN  CHOOSE v \in values : \A w \in values : w <= v

FinishedIsScored ==
    (found.by # "None" /\ finished(current)) =>
        /\ found.bowl = NoBowl
        /\ found.value = Actual(score(current, overflow_checks).value)
        /\ found.evals = 0

\* alpha_beta called on a finished position with Depth::Limit(0), a closure
\* as heuristic and an empty window, where the score is neither the
\* closure's value nor delta.
FinishedIsScoredWitness ==
    /\ found.by = "alpha_beta"
    /\ finished(current)
    /\ found.depth = Limit(0)
    /\ found.heuristic = Actual(0)
    /\ found.alpha = PositiveInfinity
    /\ found.beta = NegativeInfinity
    /\ found.value.score # 0
    /\ found.value.score # delta(current)

\* C16: on a position with a playable bowl MinMax::play and AlphaBeta::play
\* (delta heuristic, every depth budget) return Some bowl.
StrategyPlaysWhenItCan ==
    (found.by \in {"MinMax", "AlphaBeta"} /\ Len(options(current)) > 0) =>
        found.bowl.some

\* ---------------------------------------------------------- legal play
\* C17: every sequence of legal plays is finite and reaches a finished
\* position.
EveryGameEnds == <>finished(current)

\* A finished position reached by four plays or more, a turn retained among
\* them.
EveryGameEndsWitness ==
    /\ finished(current)
    /\ Len(history) >= 4
    /\ \E i \in 1 .. (Len(history) - 1) : history[i][1] = history[i + 1][1]

\* ------------------------------------------------------------- the Bout
\* The bout is between two default AlphaBeta strategies, on a fresh game
\* with bowls >= 1 and stones >= 1.
DefaultBout ==
    /\ bout.red = AlphaBeta(Infinite)
    /\ bout.blue = AlphaBeta(Infinite)
    /\ bout.handed.size >= 1
    /\ bout.handed.bowls[0] >= 1

\* C18: a bout between two default AlphaBeta strategies on a fresh game with
\* bowls >= 1 and stones >= 1 returns, and returns Ok with a finished game.
AlphaBetaBoutEndsOk ==
    DefaultBout =>
        /\ bout.at # "Dead"
        /\ bout.at = "Returned" => (bout.result.ok /\ finished(current))

\* The plays Game::play applied during the bout.
Applied == Len(history)

\* The last turn consulted a strategy that returned no bowl, or a bowl that
\* Game::play refused.
TurnFailed ==
    /\ bout'.consulted = bout.consulted + 1
    /\ outcome' \notin {"Panic", "Hang"}
    /\ ~bout'.offer.some \/ current.bowls[bout'.offer.bowl] = 0

\* C19: Bout::start returns Ok only with a finished game and after a play;
\* a turn that fails ends the bout at once with Err(NoPlay) or
\* Err(IllegalPlay), the game as it was; nothing happens after the bout
\* returned.
BoutStep ==
    /\ (bout'.at = "Returned" /\ bout'.result.ok) =>
           (finished(current') /\ Len(history') >= 1)
    /\ TurnFailed =>
           /\ bout'.at = "Returned"
           /\ bout'.result = Err(IF bout'.offer.some THEN "IllegalPlay" ELSE "NoPlay",
                                 current.player)
           /\ current' = current
           /\ history' = history
    /\ (bout.at = "Loop" /\ ~bout.result.ok /\ bout.consulted > 0) =>
           (bout'.consulted = bout.consulted /\ history' = history)
    /\ bout.at # "Returned"

BoutEndsAtFirstFailure == [][BoutStep]_vars

\* A bout that returned Err(IllegalPlay) after at least two plays were
\* applied: the failed turn was the last consultation.
BoutEndsAtFirstFailureWitness ==
    /\ bout.at = "Returned"
    /\ bout.result.problem = "IllegalPlay"
    /\ Applied >= 2
    /\ bout.consulted = Applied + 1

\* C20: Bout::start returns Err(RightOutOfTheGate) exactly when the game
\* handed to it is finished, and then no strategy was consulted; once a
\* strategy was consulted the result is not RightOutOfTheGate.
RightOutOfTheGateRule ==
    /\ bout.at = "Returned" =>
           /\ (bout.result = Err("RightOutOfTheGate", "None"))
                  <=> finished(bout.handed)
           /\ (bout.result = Err("RightOutOfTheGate", "None"))
                  => (bout.consulted = 0 /\ Applied = 0)
    /\ (bout.at \in {"Loop", "Returned"} /\ bout.consulted > 0) =>
           bout.result.problem # "RightOutOfTheGate"

\* A bout that returned on a game of bowls without stones.
RightOutOfTheGateRuleWitness ==
    /\ bout.at = "Returned"
    /\ bout.handed.size >= 1
    /\ finished(bout.handed)
    /\ bout.result = Err("RightOutOfTheGate", "None")
    /\ bout.consulted = 0

\* C21: every game GameBuilder::build produces is fresh and unfinished: its
\* position has 2 * bowls bowls that all hold the same number of stones, both
\* stores at 0, Red to move, an empty history, and finished() is false.
BuiltGameIsUnfinished ==
    (outcome = "New" /\ current = initial) =>
        /\ DOMAIN current.bowls = Board(current.size)
        /\ \E stones \in 0 .. MaxStones :
               \A i \in Board(current.size) : current.bowls[i] = stones
        /\ current.capture[0] = 0 /\ current.capture[1] = 0
        /\ current.player = "Red"
        /\ history = <<>>
        /\ ~finished(current)

\* C22: options() lists, in ascending order and without repetition, exactly
\* the indices in [0, size) whose bowl holds at least one stone; no index of
\* the far side is listed.
OptionsRule ==
    LET opts == options(current) IN
    /\ \A k \in 1 .. (Len(opts) - 1) : opts[k] < opts[k + 1]
    /\ {opts[k] : k \in DOMAIN opts}
           = {i \in 0 .. (current.size - 1) : current.bowls[i] > 0}
    /\ \A k \in DOMAIN opts : opts[k] < current.size

\* A position a play returned, with an empty bowl before the only option and
\* stones on the far side.
OptionsRuleWitness ==
    /\ outcome = "Some"
    /\ current.size = 2
    /\ options(current) = <<1>>
    /\ current.bowls[2] > 0
    /\ current.bowls[3] > 0

\* The place of a Value on the number line: below every Score, the Score,
\* above every Score.
Rank(v) ==
    IF v.tag = "NegativeInfinity" THEN -ScoreLimit - 1
    ELSE IF v.tag = "PositiveInfinity" THEN ScoreLimit
    ELSE v.score

\* The Ordering the other way round.
Reverse(ordering) ==
    IF ordering = "Less" THEN "Greater"
    ELSE IF ordering = "Greater" THEN "Less"
    ELSE "Equal"

\* C23: Value is totally ordered: NegativeInfinity is smaller than every
\* Actual(x), every Actual(x) is smaller than PositiveInfinity, Actual(x) and
\* Actual(y) compare as the integers x and y, a value is equal only to
\* itself, and the comparison is antisymmetric and transitive.
ValueIsTotallyOrdered ==
    unit.op = "cmp" =>
        LET a == unit.self
            b == unit.that
        IN  /\ unit.result = (IF Rank(a) < Rank(b) THEN "Less"
                              ELSE IF Rank(a) = Rank(b) THEN "Equal"
                              ELSE "Greater")
            /\ (unit.result = "Equal") <=> (a = b)
            /\ cmp(b, a) = Reverse(unit.result)
            /\ \A c \in Values :
                   (unit.result # "Greater" /\ cmp(b, c) # "Greater")
                       => cmp(a, c) # "Greater"

\* The greatest Actual was compared with PositiveInfinity and found smaller.
ValueIsTotallyOrderedWitness ==
    /\ unit.op = "cmp"
    /\ unit.self.tag = "Actual"
    /\ unit.self.score = ScoreLimit - 1
    /\ unit.that = PositiveInfinity
    /\ unit.result = "Less"

\* C24: Value::opposite is self-inverse for all three variants:
\* opposite(opposite(v)) = v for NegativeInfinity, PositiveInfinity and every
\* Actual(s), s = -128 included; the infinities swap and Actual(s) becomes
\* Actual(-s).
OppositeIsSelfInverse ==
    unit.op = "opposite" =>
        /\ unit.kind = "Return"
        /\ unit.result = unit.self
        /\ unit.self = NegativeInfinity => unit.once = PositiveInfinity
        /\ unit.self = PositiveInfinity => unit.once = NegativeInfinity
        /\ unit.self.tag = "Actual" => unit.once = Actual(-unit.self.score)

\* C25: Depth::decrement saturates: Limit(n) with n > 0 becomes Limit(n - 1),
\* Limit(0) stays Limit(0) and Infinite stays Infinite; is_zero is true
\* exactly for Limit(0), so no number of decrements of Infinite gives a depth
\* that is zero, and Limit(n) becomes zero after exactly n decrements.
DecrementSaturates ==
    unit.op = "decrement" =>
        LET n == unit.start.limit IN
        /\ is_zero(unit.self) <=> unit.self = Limit(0)
        /\ unit.start = Infinite =>
               (unit.self = Infinite /\ ~is_zero(unit.self))
        /\ (unit.start.tag = "Limit" /\ n >= 0) =>
               /\ unit.self = Limit(IF unit.steps >= n THEN 0 ELSE n - unit.steps)
               /\ is_zero(unit.self) <=> unit.steps >= n
        /\ (unit.start.tag = "Limit" /\ n < 0) =>
               (unit.self = Limit(n - unit.steps) /\ ~is_zero(unit.self))

\* Limit(2) was decremented four times: it is Limit(0) since the second.
DecrementSaturatesWitness ==
    /\ unit.op = "decrement"
    /\ unit.start = Limit(2)
    /\ unit.steps = 4
    /\ unit.self = Limit(0)

\* C26: for all a and b, Depth::Limit(a).to(Depth::Limit(b)) yields exactly
\* Limit(a), Limit(a + 1), .., Limit(b) in increasing order, both endpoints
\* included, and then ends; it yields nothing when a > b.
DepthRangeIsInclusive ==
    unit.op = "to" =>
        LET a == unit.self.limit
            b == unit.limit.limit
            seq == unit.yielded
        IN  /\ unit.kind = "Return"
            /\ \A k \in DOMAIN seq :
                   /\ seq[k].tag = "Limit"
                   /\ usize_le(a, seq[k].limit)
                   /\ usize_le(seq[k].limit, b)
            /\ Len(seq) >= 1 => seq[1] = Limit(a)
            /\ \A k \in 1 .. (Len(seq) - 1) :
                   /\ seq[k + 1].limit = seq[k].limit + 1
                   /\ usize_lt(seq[k].limit, seq[k + 1].limit)
            /\ unit.ended =>
                   IF usize_le(a, b) THEN seq[Len(seq)] = Limit(b)
                   ELSE seq = <<>>
            /\ (Len(seq) >= 1 /\ seq[Len(seq)] = Limit(b)) =>
                   ~depth_le(unit.iterator.current, unit.iterator.limit)

\* C27: move selection has no hidden cross-call state: two calls of play with
\* the same strategy configuration on equal positions return the same bowl,
\* whatever calls were made on the strategy before; the counts the MinMax
\* analyzer accumulated do not change the bowl MinMax selects.
SelectionIgnoresEarlierCalls ==
    searcher.name # "None" =>
        /\ \A i \in DOMAIN searcher.log, j \in DOMAIN searcher.log :
               searcher.log[i].on = searcher.log[j].on
                   => searcher.log[i].bowl = searcher.log[j].bowl
        /\ found.by = "MinMax" =>
               found.bowl = minmax(AnalyzerNew, found.on, overflow_checks).bowl
        /\ found.by = "AlphaBeta" =>
               found.bowl = search(found.on, searcher.depth, Delta,
                                   overflow_checks).bowl

\* A MinMax whose analyzer has counted two earlier searches selected, among
\* two options, the bowl it had selected in its first call on that position.
SelectionIgnoresEarlierCallsWitness ==
    /\ searcher.name = "MinMax"
    /\ Len(searcher.log) = 3
    /\ searcher.log[1].on = searcher.log[3].on
    /\ searcher.log[2].on # searcher.log[1].on
    /\ Len(options(searcher.log[3].on)) = 2
    /\ searcher.log[3].bowl.some
    /\ searcher.log[3].bowl = searcher.log[1].bowl
    /\ node_count(searcher.analyzer) > 3

\* The number of sequences of d plays from p, each bowl taken from options()
\* of the position it is played on, the first one from the k-th option on.
RECURSIVE SequencesOf(_, _, _, _)
SequencesOf(p, d, k, checks) ==
    IF d = 0 THEN 1
    ELSE IF k > Len(options(p)) THEN 0
    ELSE SequencesOf(play(p, options(p)[k], checks).pos, d - 1, 1, checks)
             + SequencesOf(p, d, k + 1, checks)

\* C28: after one MinMax::play on a fresh MinMax the analyzer has counted
\* every node of the game tree of the position once, at its depth: the count
\* of depth d is the number of sequences of d plays from the root, their sum
\* the number of all sequences, the greatest recorded depth the length of the
\* longest sequence, and the current depth is back to 0.
AnalyzerCountsTheTree ==
    (found.by = "MinMax" /\ found.kind = "Return") =>
        LET analyzer == found.analyzer
            deepest == Plies(current, overflow_checks)
        IN  /\ analyzer.current_depth = 0
            /\ Len(analyzer.depth_counter) = deepest + 1
            /\ \A d \in 0 .. deepest :
                   analyzer.depth_counter[d + 1]
                       = SequencesOf(current, d, 1, overflow_checks)
            /\ node_count(analyzer)
                   = SeqSum([d \in 1 .. (deepest + 1) |->
                                SequencesOf(current, d - 1, 1, overflow_checks)])

\* A tree with several nodes at one depth and lines of different lengths.
AnalyzerCountsTheTreeWitness ==
    /\ found.by = "MinMax"
    /\ found.kind = "Return"
    /\ Len(found.analyzer.depth_counter) >= 4
    /\ found.analyzer.depth_counter[2] = 2
    /\ found.analyzer.depth_counter[3] >= 3
    /\ found.analyzer.depth_counter[4] < found.analyzer.depth_counter[3]

\* The absolute board: the bowls of Red and of Blue in sowing order, the two
\* stores and the side to move.  AbsoluteOf reads it off a Position.
AbsoluteOf(p) ==
    [size |-> p.size,
     turn |-> p.player,
     side |-> [pl \in Players |->
                  [i \in 0 .. (p.size - 1) |->
                      IF pl = p.player THEN p.bowls[i] ELSE p.bowls[p.size + i]]],
     store |-> [pl \in Players |->
                   IF pl = p.player THEN p.capture[0] ELSE p.capture[1]]]

\* One play on the absolute board: the mover sows from its own bowl, the
\* stones fall on its side, in its store and on the other side by the rules
\* of sow; no bowl and no store changes its place, only the side to move does.
AbsolutePlay(abs, bowl) ==
    LET mover == abs.turn
        seen == [player |-> mover,
                 size |-> abs.size,
                 capture |-> [i \in 0 .. 1 |->
                                 IF i = 0 THEN abs.store[mover]
                                 ELSE abs.store[other(mover)]],
                 bowls |-> [i \in Board(abs.size) |->
                               IF i < abs.size THEN abs.side[mover][i]
                               ELSE abs.side[other(mover)][i - abs.size]]]
        after == captured_bowls(seen, bowl)
    IN  [size |-> abs.size,
         turn |-> IF final_index(seen, bowl) = abs.size THEN mover
                  ELSE other(mover),
         side |-> [pl \in Players |->
                      [i \in 0 .. (abs.size - 1) |->
                          IF pl = mover THEN after[i] ELSE after[abs.size + i]]],
         store |-> [pl \in Players |->
                       IF pl = mover THEN AsStones(store_exact(seen, bowl))
                       ELSE abs.store[pl]]]

\* The absolute board after the first k plays of the history.
RECURSIVE AbsoluteAfter(_, _, _)
AbsoluteAfter(abs, plays, k) ==
    IF k = 0 THEN abs
    ELSE AbsolutePlay(AbsoluteAfter(abs, plays, k - 1), plays[k][2])

\* C29: the rotating board is equivalent to an absolute board: after every
\* play of a sequence run on both, the player tag is the side to move,
\* bowls[0..size) are that side's bowls and bowls[size..2*size) the other
\* side's, in sowing order, capture[0] is the store of the side to move and
\* capture[1] the store of the other side.
RotatingBoardIsAbsolute ==
    LET abs == AbsoluteAfter(AbsoluteOf(initial), history, Len(history)) IN
    /\ current.player = abs.turn
    /\ \A i \in 0 .. (current.size - 1) :
           /\ current.bowls[i] = abs.side[abs.turn][i]
           /\ current.bowls[current.size + i] = abs.side[other(abs.turn)][i]
    /\ current.capture[0] = abs.store[abs.turn]
    /\ current.capture[1] = abs.store[other(abs.turn)]

\* A game of three plays or more in which the turn passed and then was kept;
\* both stores and a bowl hold stones.
RotatingBoardIsAbsoluteWitness ==
    /\ Len(history) >= 3
    /\ current.size = 2
    /\ \E k \in 1 .. (Len(history) - 2) :
           /\ history[k][1] # history[k + 1][1]
           /\ history[k + 1][1] = history[k + 2][1]
    /\ current.capture[0] > 0
    /\ current.capture[1] > 0
    /\ \E i \in 0 .. 3 : current.bowls[i] > 0

\* A history replayed from p with Position::play, from its k-th entry on:
\* [ok, pos], ok when every play returned a position and every recorded
\* player was the one to move.
RECURSIVE Replayed(_, _, _, _)
Replayed(p, plays, k, checks) ==
    IF k > Len(plays) THEN [ok |-> TRUE, pos |-> p]
    ELSE LET r == play(p, plays[k][2], checks)
         IN  IF plays[k][1] # p.player \/ r.kind # "Some"
             THEN [ok |-> FALSE, pos |-> p]
             ELSE Replayed(r.pos, plays, k + 1, checks)

\* A call of Game::play and the history: a successful play appends the pair
\* (player to move before the play, bowl played), any other call leaves the
\* history and the position alone.
HistoryStep ==
    \/ /\ outcome' = "Ok"
       /\ history' = Append(history, <<current.player, played'>>)
    \/ /\ outcome' # "Ok"
       /\ history' = history
       /\ current' = current

\* The history replays from the initial position to the current one.
HistoryReplays ==
    Replayed(initial, history, 1, overflow_checks) = [ok |-> TRUE, pos |-> current]

\* C30: the history of a Game is append-only and complete: every successful
\* Game::play appends exactly one pair (player to move before the play, bowl
\* played) and changes no earlier entry, so the history is as long as the
\* number of successful plays, and replaying its bowls from the initial
\* position gives the current position, each recorded player being the mover.
HistoryIsAppendOnly == [][HistoryStep]_vars /\ []HistoryReplays

\* A game with three entries or more, a kept turn among them, on which a
\* play has just failed.
HistoryIsAppendOnlyWitness ==
    /\ outcome = "Err"
    /\ Len(history) >= 3
    /\ \E k \in 1 .. (Len(history) - 1) : history[k][1] = history[k + 1][1]
    /\ \E k \in 1 .. (Len(history) - 1) : history[k][1] # history[k + 1][1]

\* The positions a search of p can visit: p and every position a sequence of
\* plays leads to, each bowl taken from options() of the position it is
\* played on.
RECURSIVE Visited(_, _)
Visited(p, checks) ==
    {p} \cup UNION {Visited(play(p, options(p)[k], checks).pos, checks) :
                       k \in DOMAIN options(p)}

\* C31: the internal assertions of the searches never fail: in every position
\* visited by MinMax or AlphaBeta, finished() is true exactly when options()
\* is empty, play(bowl) returns a Position for every bowl of options() and
\* score() returns Some on every finished position, so that no expect() is
\* hit and the search returns.
AssertionsNeverFail ==
    found.by # "None" =>
        /\ found.kind = "Return"
        /\ \A q \in Visited(current, overflow_checks) :
               /\ finished(q) <=> (Len(options(q)) = 0)
               /\ \A k \in DOMAIN options(q) :
                      play(q, options(q)[k], overflow_checks).kind = "Some"
               /\ finished(q) => score(q, overflow_checks).kind = "Some"
               /\ ~finished(q) => score(q, overflow_checks).kind = "None"

\* An AlphaBeta search over six positions or more, among them a finished one
\* with stones left on the far side and one reached by a play that kept the
\* turn.
AssertionsNeverFailWitness ==
    /\ found.by = "AlphaBeta"
    /\ found.depth = Infinite
    /\ found.kind = "Return"
    /\ Cardinality(Visited(current, overflow_checks)) >= 6
    /\ \E q \in Visited(current, overflow_checks) :
           /\ finished(q)
           /\ SliceSum(q.bowls, q.size, 2 * q.size) > 0
    /\ \E q \in Visited(current, overflow_checks) :
           \E k \in DOMAIN options(q) :
               play(q, options(q)[k], overflow_checks).pos.player = q.player

\* The unpruned negamax limited to d plays, with the delta heuristic: the
\* score of a finished position, delta of an unfinished one when no depth is
\* left, else the greatest value a bowl of options() leads to with one unit
\* of depth less, the value of a child being negated when the turn passed.
RECURSIVE LimitedNegamax(_, _, _)
LimitedChild(p, bowl, d, checks) ==
    LET child == play(p, bowl, checks).pos
    IN  IF child.player # p.player
        THEN 0 - LimitedNegamax(child, d - 1, checks)
        ELSE LimitedNegamax(child, d - 1, checks)

LimitedNegamax(p, d, checks) ==
    IF finished(p) THEN score(p, checks).value
    ELSE IF d = 0 THEN delta(p)
    ELSE LET values == {LimitedChild(p, bowl, d, checks) : bowl \in Playable(p)}
         IN  CHOOSE v \in values : \A w \in values : w <= v

\* The positions the unpruned negamax limited to d plays evaluates: p, and
\* below p the positions under its options from the k-th on.
RECURSIVE LimitedNodes(_, _, _)
RECURSIVE LimitedBelow(_, _, _, _)
LimitedBelow(p, d, k, checks) ==
    IF k > Len(options(p)) THEN 0
    ELSE LimitedNodes(play(p, options(p)[k], checks).pos, d - 1, checks)
             + LimitedBelow(p, d, k + 1, checks)

LimitedNodes(p, d, checks) ==
    IF finished(p) \/ d = 0 THEN 1 ELSE 1 + LimitedBelow(p, d, 1, checks)

DepthIsCountedInPlays ==
    (ByAlphaBeta /\ found.depth.tag = "Limit") =>
        LET d == found.depth.limit IN
        /\ found.kind = "Return"
        /\ \A v \in found.visits :
               /\ v.plies <= d
               /\ v.how = "heuristic" => v.plies = d
               /\ v.how = "expanded" => v.plies < d
        /\ found.evals > 0 <=> (\E v \in found.visits : v.how = "heuristic")

\* A search limited to two plays whose first line is a play that keeps the
\* turn and a play onto an unfinished position: that position was valued by
\* the heuristic, two plays from the root.
DepthIsCountedInPlaysWitness ==
    /\ ByAlphaBeta
    /\ found.depth = Limit(2)
    /\ ~finished(current)
    /\ LET first == play(current, options(current)[1], overflow_checks).pos
       IN  /\ first.player = current.player
           /\ ~finished(first)
           /\ ~finished(play(first, options(first)[1], overflow_checks).pos)
    /\ Visit(2, "heuristic") \in found.visits
    /\ Visit(1, "expanded") \in found.visits
    /\ \E v \in found.visits : v.how = "score"

\* The field of the Bout that holds the strategy of a player.
FieldOf(player) == IF player = "Red" THEN "red" ELSE "blue"

\* C34: on every turn Bout::start consults the strategy of the player to
\* move, so that after a play that keeps the turn the same strategy is
\* consulted again; a NoPlay(p) or IllegalPlay(p, _) result carries the
\* player whose strategy was consulted on the failing turn.
BoutConsultsTheMover ==
    bout.at \in {"Loop", "Returned", "Dead"} =>
        /\ Len(bout.asked) = bout.consulted
        /\ \A i \in DOMAIN history : bout.asked[i] = FieldOf(history[i][1])
        /\ \A i \in 1 .. (Len(history) - 1) :
               history[i][1] = history[i + 1][1] => bout.asked[i] = bout.asked[i + 1]
        /\ bout.result.problem \in {"NoPlay", "IllegalPlay"} =>
               /\ Len(bout.asked) = Len(history) + 1
               /\ bout.asked[Len(bout.asked)] = FieldOf(bout.result.player)
               /\ bout.result.player = current.player

\* Blue played after Red and kept the turn; consulted again, it offered a
\* bowl that was refused and the bout returned IllegalPlay(Blue).
BoutConsultsTheMoverWitness ==
    /\ bout.at = "Returned"
    /\ bout.result = Err("IllegalPlay", "Blue")
    /\ Len(history) >= 2
    /\ history[Len(history) - 1][1] = "Red"
    /\ history[Len(history)][1] = "Blue"
    /\ bout.asked[Len(bout.asked) - 1] = "blue"
    /\ bout.asked[Len(bout.asked)] = "blue"
    /\ bout.red # bout.blue

\* The store of a player, read through the player tag of the position.
StoreOf(p, player) == IF p.player = player THEN p.capture[0] ELSE p.capture[1]

\* One call of play and the stores: no store loses a stone and the store of
\* the player who does not move is left as it was.
StoresStep ==
    \A player \in Players :
        /\ StoreOf(current', player) >= StoreOf(current, player)
        /\ player # current.player =>
               StoreOf(current', player) = StoreOf(current, player)

\* C35: stones in a store are out of play: along every sequence of plays the
\* store of Red and the store of Blue never decrease, and a play never
\* changes the store of the player who does not move.
StoresOnlyGrow == [][StoresStep]_vars

\* The positions a search limited to d plays can visit.
RECURSIVE VisitedWithin(_, _, _)
VisitedWithin(p, d, checks) ==
    IF d = 0 THEN {p}
    ELSE {p} \cup UNION {VisitedWithin(play(p, options(p)[k], checks).pos,
                                       d - 1, checks) :
                            k \in DOMAIN options(p)}

\* The positions the last search could visit.
Searched ==
    IF found.depth.tag = "Limit"
    THEN VisitedWithin(current, found.depth.limit, overflow_checks)
    ELSE Visited(current, overflow_checks)

\* The score and the difference of the stores in unbounded integers.
ExactScore(p) ==
    (SliceSum(p.bowls, 0, p.size) + p.capture[0])
        - (SliceSum(p.bowls, p.size, 2 * p.size) + p.capture[1])

ExactDelta(p) == p.capture[0] - p.capture[1]

\* An integer that Score holds and whose negation Score holds.
InScore(x) == -ScoreLimit < x /\ x < ScoreLimit

\* C36: no arithmetic overflow up to 127 stones: in every position reachable
\* from a board of at most 127 stones every bowl and store fits in Stones,
\* no sow leaves Stones, score() and delta() are the exact integer results
\* and lie within Score, and so does the opposite of every Value a search
\* produces; the searches return in the build that checks its arithmetic.
NoOverflowUpTo127 ==
    (found.by # "None" /\ Total(initial) < ScoreLimit) =>
        /\ found.kind = "Return"
        /\ found.value.tag = "Actual" =>
               /\ InScore(found.value.score)
               /\ opposite(found.value) = Actual(0 - found.value.score)
        /\ \A q \in Searched :
               /\ Total(q) = Total(initial)
               /\ \A i \in Board(q.size) : q.bowls[i] < StonesModulus
               /\ q.capture[0] < StonesModulus /\ q.capture[1] < StonesModulus
               /\ \A k \in DOMAIN options(q) : ~sow_overflows(q, options(q)[k])
               /\ delta(q) = ExactDelta(q)
               /\ InScore(ExactDelta(q))
               /\ opposite(Actual(delta(q))) = Actual(0 - ExactDelta(q))
               /\ finished(q) =>
                      /\ score(q, overflow_checks)
                             = [kind |-> "Some", value |-> ExactScore(q)]
                      /\ InScore(ExactScore(q))
                      /\ opposite(Actual(ExactScore(q)))
                             = Actual(0 - ExactScore(q))

\* A search on a board of 127 stones whose best play passes the turn to a
\* player who has lost all of them: the score -127 was negated to 127.
NoOverflowUpTo127Witness ==
    /\ found.by = "AlphaBeta"
    /\ found.kind = "Return"
    /\ Total(initial) = ScoreLimit - 1
    /\ found.bowl.some
    /\ found.value = Actual(ScoreLimit - 1)
    /\ LET child == play(current, found.bowl.bowl, overflow_checks).pos
       IN  /\ child.player # current.player
           /\ finished(child)
           /\ score(child, overflow_checks).value = 1 - ScoreLimit

\* The exact value of the depth-limited search without pruning, as an
\* integer: the score of a finished position, the heuristic's value of an
\* unfinished one when no depth is left, else the greatest value a bowl of
\* options() leads to with the depth budget one less, negated when the turn
\* passed.
RECURSIVE ExactValue(_, _, _, _)
ExactChild(p, bowl, depth, heuristic, checks) ==
    LET child == play(p, bowl, checks).pos
        budget == IF depth.tag = "Infinite" THEN depth
                  ELSE Limit(depth.limit - 1)
    IN  IF child.player # p.player
        THEN 0 - ExactValue(child, budget, heuristic, checks)
        ELSE ExactValue(child, budget, heuristic, checks)

ExactValue(p, depth, heuristic, checks) ==
    IF finished(p) THEN ExactScore(p)
    ELSE IF depth = Limit(0)
    THEN (IF heuristic.tag = "Delta" THEN ExactDelta(p) ELSE heuristic.score)
    ELSE LET values == {ExactChild(p, bowl, depth, heuristic, checks) :
                           bowl \in Playable(p)}
         IN  CHOOSE v \in values : \A w \in values : w <= v

IdsPlaysWhenItCan ==
    (/\ found.by = "Ids"
     /\ Len(options(current)) > 0
     /\ (found.depth = Infinite \/ found.depth.limit >= 1)) =>
        /\ found.kind = "Return"
        /\ found.searches >= 1
        /\ found.bowl.some
        /\ found.bowl.bowl \in Playable(current)

\* The same for the limited depths alone.
IdsPlaysWhenLimited ==
    (/\ found.by = "Ids"
     /\ Len(options(current)) > 0
     /\ found.depth.tag = "Limit"
     /\ found.depth.limit >= 1) =>
        /\ found.kind = "Return"
        /\ found.searches = found.depth.limit
        /\ found.bowl.some
        /\ found.bowl.bowl \in Playable(current)

====
